---- MODULE Spec2Model ----
(***************************************************************************)
(* World Happiness Dashboard (app.py): a Streamlit script.  One process    *)
(* holds the st.cache_data cache; every user interaction reruns the script *)
(* from the top.  The model follows one process through its script runs:   *)
(* the cached load, the sidebar widgets, the year subsets, the three       *)
(* metrics, the highlight flag, the charts and the heat map.               *)
(***************************************************************************)
EXTENDS Integers, Sequences, FiniteSets, TLC

VARIABLES
    primary,            \* happiness_clean.csv as found on disk
    secondary,          \* 2015.csv as found on disk
    cache,              \* the st.cache_data entry of load_data()
    calls,              \* how often load_data() has been called in this process
    reads,              \* how often happiness_clean.csv has been read and parsed
    pc,                 \* position of the current script run
    df,                 \* module-level df of the current run
    raised,             \* exception that ended the current run ("none" if none)
    selected_year,      \* st.sidebar.slider value
    selected_countries, \* st.sidebar.multiselect value
    x_axis_label,       \* first st.sidebar.selectbox value
    dist_label,         \* second st.sidebar.selectbox value
    df_year,            \* rows of the selected year (a frame of its own)
    df_prev,            \* rows of the year before
    delta_score,        \* get_delta('Score')
    delta_x,            \* get_delta(x_axis_col)
    happiest,           \* Country of the idxmax row
    page                \* elements rendered by the current run, in order

vars == <<primary, secondary, cache, calls, reads, pc, df, raised, selected_year,
          selected_countries, x_axis_label, dist_label, df_year, df_prev,
          delta_score, delta_x, happiest, page>>

---------------------------------------------------------------------------
(* Bounds of the explored inputs *)
MaxRows == 2
MaxPairs == 2
MaxCalls == 2

(* Program constants *)
DefaultYear == 2019

Years == {DefaultYear - 1, DefaultYear, DefaultYear + 1}
Countries == {"A", "B"}
ScoreVals == {1, 2}
Regions == {"R1", "R2"}
NaN == "NaN"

axis_options ==
    [l \in {"Economy (GDP)", "Social Support", "Health (Life Expectancy)",
            "Freedom", "Generosity", "Trust (Corruption)"} |->
        CASE l = "Economy (GDP)" -> "GDP_per_Capita"
          [] l = "Social Support" -> "Social_Support"
          [] l = "Health (Life Expectancy)" -> "Life_Expectancy"
          [] l = "Freedom" -> "Freedom"
          [] l = "Generosity" -> "Generosity"
          [] l = "Trust (Corruption)" -> "Corruption"]

corr_cols ==
    <<"Score", "GDP_per_Capita", "Social_Support", "Life_Expectancy",
      "Freedom", "Generosity">>

(* Labels the user picks in the explored runs; index 0 and index 2 are the *)
(* selectboxes' defaults.                                                  *)
XLabelChoices == {"Economy (GDP)", "Trust (Corruption)"}
DistLabelChoices == {"Health (Life Expectancy)"}

---------------------------------------------------------------------------
(* Input files *)

SeqsUpTo(S, n) == UNION {[1..k -> S] : k \in 0..n}

\* the explored rows: a country's predictors are the same in every year
GdpOf(c) == IF c = "A" THEN 0 ELSE 1

PrimaryRows ==
    {[Country |-> c, Year |-> y, Score |-> s, GDP_per_Capita |-> GdpOf(c),
      Social_Support |-> 1, Life_Expectancy |-> 1, Freedom |-> 1,
      Generosity |-> 1, Corruption |-> 3 - GdpOf(c)] :
        c \in Countries, y \in Years, s \in ScoreVals}

PlainRows == {r \in PrimaryRows : r.Year = DefaultYear /\ r.Score = 1}

FileOk(rows) == [state |-> "ok", rows |-> rows]
FileMissing == [state |-> "missing", rows |-> <<>>]
FileUnparseable == [state |-> "unparseable", rows |-> <<>>]

PrimaryFiles ==
    {FileMissing, FileUnparseable}
        \cup {FileOk(t) : t \in SeqsUpTo(PrimaryRows, MaxRows)}

PlainPrimaryFiles ==
    {FileMissing, FileUnparseable}
        \cup {FileOk(t) : t \in SeqsUpTo(PlainRows, MaxRows)}

SecondaryRows ==
    {[Country |-> c, Region |-> r] : c \in Countries, r \in Regions \cup {NaN}}

SecOk(cols, rows) == [state |-> "ok", cols |-> cols, rows |-> rows]
SecMissing == [state |-> "missing", cols |-> {}, rows |-> <<>>]
SecUnparseable == [state |-> "unparseable", cols |-> {}, rows |-> <<>>]

SecondaryFiles ==
    {SecMissing, SecUnparseable}
        \cup {SecOk({"Country", "Region"}, t) :
                t \in SeqsUpTo(SecondaryRows, MaxPairs)}
        \cup {SecOk(cs, <<>>) : cs \in {{"Country"}, {"Region"}, {}}}

---------------------------------------------------------------------------
(* load_data *)

NoTable == [set |-> FALSE, rows |-> <<>>]
Table(rows) == [set |-> TRUE, rows |-> rows]

MaxOf(S) == CHOOSE x \in S : \A y \in S : y <= x
MinOf(S) == CHOOSE x \in S : \A y \in S : x <= y

\* dict(zip(df_2015['Country'], df_2015['Region'])): a later pair replaces an
\* earlier one with the same key
region_map_of(rows) ==
    [c \in {rows[i].Country : i \in DOMAIN rows} |->
        rows[MaxOf({i \in DOMAIN rows : rows[i].Country = c})].Region]

\* Series.map(dict): NaN where the key is missing
map_dict(key, m) == IF key \in DOMAIN m THEN m[key] ELSE NaN

fillna_keep(v, d) == v

\* Series.fillna(d)
fillna(v, d) == IF v = NaN THEN d ELSE v

\* df['Region'] = regions: one more column, row by row
WithRegion(rows, regions) ==
    [i \in DOMAIN rows |-> rows[i] @@ [Region |-> regions[i]]]

Returned(rows) == [exc |-> "none", rows |-> rows]
Raises(e) == [exc |-> e, rows |-> <<>>]

\* the body of load_data(): what it returns or raises for the files on disk
load_data(p, s) ==
    IF p.state = "missing" THEN Raises("FileNotFoundError")
    ELSE IF p.state = "unparseable" THEN Raises("ParserError")
    ELSE IF s.state = "missing"
        THEN Returned(WithRegion(p.rows, [i \in DOMAIN p.rows |-> "Unknown"]))
    ELSE IF s.state = "unparseable" THEN Raises("ParserError")
    ELSE IF "Region" \in s.cols /\ "Country" \notin s.cols
        THEN Raises("KeyError")
    ELSE LET region_map == IF "Region" \in s.cols
                           THEN region_map_of(s.rows)
                           ELSE region_map_of(<<>>)
             mapped == [i \in DOMAIN p.rows |->
                           map_dict(p.rows[i].Country, region_map)]
         IN  Returned(WithRegion(p.rows,
                 [i \in DOMAIN p.rows |-> fillna(mapped[i], "Other")]))

cache_never(c) == FALSE

\* st.cache_data: a stored return value is served without running the body
cache_hit(c) == c.set

stop_skipped == "sidebar"

\* st.stop(): the script run ends here
st_stop == "stopped"

Element(kind, label, value, delta) ==
    [kind |-> kind, label |-> label, value |-> value, delta |-> delta]

NoText == [t |-> "None", sign |-> "", v |-> 0]

NoNumber == [t |-> "None", n |-> 0, d |-> 1]

NoFrame == [idx |-> <<>>, rows |-> <<>>, view |-> FALSE]

LoadData ==
    /\ pc = "load"
    /\ calls' = calls + 1
    /\ IF cache_hit(cache)
       THEN /\ df' = cache
            /\ pc' = "sidebar"
            /\ UNCHANGED <<cache, reads, page>>
       ELSE LET res == load_data(primary, secondary)
            IN  /\ reads' = IF primary.state = "ok" THEN reads + 1 ELSE reads
                /\ IF res.exc = "none"
                   THEN /\ cache' = Table(res.rows)
                        /\ df' = Table(res.rows)
                        /\ pc' = "sidebar"
                        /\ page' = page
                   ELSE /\ page' = Append(page, Element("error", "Data file not found", NoText, NoText))
                        /\ pc' = st_stop
                        /\ UNCHANGED <<cache, df>>
    /\ UNCHANGED <<primary, secondary, raised, selected_year,
                   selected_countries, x_axis_label, dist_label, df_year,
                   df_prev, delta_score, delta_x, happiest>>

---------------------------------------------------------------------------
(* Sidebar: the year slider, the country multiselect, the two selectboxes *)

YearsOf(rows) == {rows[i].Year : i \in DOMAIN rows}

\* sorted(df['Country'].unique()), the options of the multiselect
all_countries(rows) == {rows[i].Country : i \in DOMAIN rows}

Crash(e) ==
    /\ raised' = e
    /\ pc' = "crashed"

Sidebar ==
    /\ pc = "sidebar"
    /\ IF ~df.set
       THEN \* df was never bound
            /\ Crash("NameError")
            /\ UNCHANGED <<selected_year, selected_countries, x_axis_label, dist_label>>
       ELSE IF df.rows = <<>>
       THEN \* int(df['Year'].min()) of an empty column: int(nan)
            /\ Crash("ValueError")
            /\ UNCHANGED <<selected_year, selected_countries, x_axis_label, dist_label>>
       ELSE IF DefaultYear \notin MinOf(YearsOf(df.rows))..MaxOf(YearsOf(df.rows))
       THEN \* st.slider rejects a value outside [min_value, max_value]
            /\ Crash("StreamlitAPIException")
            /\ UNCHANGED <<selected_year, selected_countries, x_axis_label, dist_label>>
       ELSE /\ selected_year' \in MinOf(YearsOf(df.rows))..MaxOf(YearsOf(df.rows))
            /\ selected_countries' \in SUBSET all_countries(df.rows)
            /\ x_axis_label' \in XLabelChoices
            /\ dist_label' \in DistLabelChoices
            /\ pc' = "prepare"
            /\ UNCHANGED raised
    /\ UNCHANGED <<primary, secondary, cache, calls, reads, df, df_year, df_prev,
                   delta_score, delta_x, happiest, page>>

x_axis_col == axis_options[x_axis_label]
dist_col == axis_options[dist_label]

---------------------------------------------------------------------------
(* Year subsets *)

RECURSIVE IndicesWhere(_, _, _)
\* index labels i >= from of rows with Year = y, in dataset order
IndicesWhere(rows, y, from) ==
    IF from > Len(rows) THEN <<>>
    ELSE IF rows[from].Year = y
         THEN <<from>> \o IndicesWhere(rows, y, from + 1)
         ELSE IndicesWhere(rows, y, from + 1)

\* df[df['Year'] == y]: the matching rows under their original index labels;
\* the result is not guaranteed to be independent of df
year_filter(tbl, y) ==
    LET ix == IndicesWhere(tbl.rows, y, 1)
    IN  [idx |-> ix, rows |-> [k \in DOMAIN ix |-> tbl.rows[ix[k]]], view |-> TRUE]

copy_alias(frame) == frame

\* DataFrame.copy(): a frame that owns its data
copy(frame) == [frame EXCEPT !.view = FALSE]

Prepare ==
    /\ pc = "prepare"
    /\ df_year' = copy(year_filter(df, selected_year))
    /\ df_prev' = year_filter(df, selected_year - 1)
    /\ page' = Append(page, Element("title", x_axis_label, NoText, NoText))
    /\ pc' = "metric1"
    /\ UNCHANGED <<primary, secondary, cache, calls, reads, df, raised, selected_year,
                   selected_countries, x_axis_label, dist_label, delta_score,
                   delta_x, happiest>>

---------------------------------------------------------------------------
(* Means, deltas and their formatting.  A mean is a fraction n/d, or nan.  *)

Num(n, d) == [t |-> "num", n |-> n, d |-> d]
NanNumber == [t |-> "nan", n |-> 0, d |-> 1]

RECURSIVE SumCol(_, _)
SumCol(rows, col) ==
    IF rows = <<>> THEN 0 ELSE rows[1][col] + SumCol(Tail(rows), col)

\* Series.mean(): nan for an empty column
mean(rows, col) ==
    IF rows = <<>> THEN NanNumber ELSE Num(SumCol(rows, col), Len(rows))

\* float subtraction: nan if either operand is nan
minus(a, b) ==
    IF a.t = "nan" \/ b.t = "nan" THEN NanNumber
    ELSE Num(a.n * b.d - b.n * a.d, a.d * b.d)

get_delta_zero(column, year_rows, prev_rows) ==
    IF prev_rows = <<>> THEN Num(0, 1)
    ELSE minus(mean(year_rows, column), mean(prev_rows, column))

\* get_delta(column) over the module-level df_year and df_prev
get_delta(column, year_rows, prev_rows) ==
    IF prev_rows = <<>> THEN NoNumber
    ELSE minus(mean(year_rows, column), mean(prev_rows, column))

Abs(x) == IF x < 0 THEN -x ELSE x

\* |n/d| in hundredths, rounded to nearest, ties to even
Hundredths(n, d) ==
    LET a == Abs(100 * n)
        b == Abs(d)
        q == a \div b
        r == a % b
    IN  IF 2 * r < b THEN q
        ELSE IF 2 * r > b THEN q + 1
        ELSE IF q % 2 = 0 THEN q ELSE q + 1

Negative(x) == (x.n < 0 /\ x.d > 0) \/ (x.n > 0 /\ x.d < 0)

\* f"{x:.2f}"
format_2f(x) ==
    IF x.t = "nan" THEN [t |-> "nan", sign |-> "", v |-> 0]
    ELSE [t |-> "num", sign |-> IF Negative(x) THEN "-" ELSE "",
          v |-> Hundredths(x.n, x.d)]

\* f"{x:+.2f}": a TypeError when x is None
format_signed_2f(x) ==
    IF x.t = "None" THEN [t |-> "TypeError", sign |-> "", v |-> 0]
    ELSE IF x.t = "nan" THEN [t |-> "nan", sign |-> "+", v |-> 0]
    ELSE [t |-> "num", sign |-> IF Negative(x) THEN "-" ELSE "+",
          v |-> Hundredths(x.n, x.d)]

\* f"{delta:+.2f}" if delta is not None else None
delta_text(delta) == IF delta.t = "None" THEN NoText ELSE format_signed_2f(delta)

Metric1 ==
    /\ pc = "metric1"
    /\ LET d == get_delta("Score", df_year.rows, df_prev.rows)
       IN  /\ delta_score' = d
           /\ IF delta_text(d).t = "TypeError"
              THEN Crash("TypeError") /\ UNCHANGED page
              ELSE /\ page' = Append(page, Element("metric", "Avg Happiness Score",
                                        format_2f(mean(df_year.rows, "Score")),
                                        delta_text(d)))
                   /\ pc' = "metric2"
                   /\ UNCHANGED raised
    /\ UNCHANGED <<primary, secondary, cache, calls, reads, df, selected_year,
                   selected_countries, x_axis_label, dist_label, df_year,
                   df_prev, delta_x, happiest>>

Metric2 ==
    /\ pc = "metric2"
    /\ LET d == get_delta(x_axis_col, df_year.rows, df_prev.rows)
       IN  /\ delta_x' = d
           /\ IF delta_text(d).t = "TypeError"
              THEN Crash("TypeError") /\ UNCHANGED page
              ELSE /\ page' = Append(page, Element("metric", x_axis_label,
                                        format_2f(mean(df_year.rows, x_axis_col)),
                                        delta_text(d)))
                   /\ pc' = "happiest"
                   /\ UNCHANGED raised
    /\ UNCHANGED <<primary, secondary, cache, calls, reads, df, selected_year,
                   selected_countries, x_axis_label, dist_label, df_year,
                   df_prev, delta_score, happiest>>

---------------------------------------------------------------------------
(* Happiest country *)

MaxScore(rows) == MaxOf({rows[k].Score : k \in DOMAIN rows})

idxmax_last(frame) ==
    frame.idx[MaxOf({k \in DOMAIN frame.rows :
                        frame.rows[k].Score = MaxScore(frame.rows)})]

\* Series.idxmax(): the index label of the first occurrence of the maximum
idxmax(frame) ==
    frame.idx[MinOf({k \in DOMAIN frame.rows :
                        frame.rows[k].Score = MaxScore(frame.rows)})]

\* DataFrame.loc[label]: the row under an index label
loc(frame, label) ==
    frame.rows[CHOOSE k \in DOMAIN frame.idx : frame.idx[k] = label]

NoCountry == "<none>"

Happiest ==
    /\ pc = "happiest"
    /\ IF df_year.rows = <<>>
       THEN \* idxmax of an empty Series
            /\ Crash("ValueError")
            /\ UNCHANGED <<happiest, page>>
       ELSE /\ happiest' = loc(df_year, idxmax(df_year)).Country
            /\ page' = Append(page, Element("metric", "Happiest Country",
                                 [t |-> "text", sign |-> "", v |-> 0], NoText))
            /\ pc' = "highlight"
            /\ UNCHANGED raised
    /\ UNCHANGED <<primary, secondary, cache, calls, reads, df, selected_year,
                   selected_countries, x_axis_label, dist_label, df_year,
                   df_prev, delta_score, delta_x>>

---------------------------------------------------------------------------
(* Highlight flag *)

isin_nonempty(country, values) == values # {}

\* Series.isin(values) for one row
isin(country, values) == country \in values

HasFlag(r) == "Is_Selected" \in DOMAIN r

SetFlag(r, sel) ==
    [c \in (DOMAIN r) \cup {"Is_Selected"} |->
        IF c = "Is_Selected"
        THEN isin(r.Country, sel)
        ELSE r[c]]

\* df_year['Is_Selected'] = ...: a new column on df_year; when df_year shares
\* its data with df the column lands on df's rows as well
Highlight ==
    /\ pc = "highlight"
    /\ df_year' = [df_year EXCEPT
                     !.rows = [k \in DOMAIN df_year.rows |->
                                 SetFlag(df_year.rows[k], selected_countries)]]
    /\ df' = IF df_year.view
             THEN [df EXCEPT
                     !.rows = [i \in DOMAIN df.rows |->
                         IF \E k \in DOMAIN df_year.idx : df_year.idx[k] = i
                         THEN SetFlag(df.rows[i], selected_countries)
                         ELSE df.rows[i]]]
             ELSE df
    /\ pc' = "charts"
    /\ UNCHANGED <<primary, secondary, cache, calls, reads, raised, selected_year,
                   selected_countries, x_axis_label, dist_label, df_prev,
                   delta_score, delta_x, happiest, page>>

---------------------------------------------------------------------------
(* Charts and heat map *)

Charts ==
    /\ pc = "charts"
    /\ page' = Append(page, [kind |-> "altair_chart", scatter_x |-> x_axis_col,
                              hist_x |-> dist_col, data |-> df_year.rows])
    /\ pc' = "heatmap"
    /\ UNCHANGED <<primary, secondary, cache, calls, reads, df, raised, selected_year,
                   selected_countries, x_axis_label, dist_label, df_year,
                   df_prev, delta_score, delta_x, happiest>>

Varies(rows, col) == \E j, k \in DOMAIN rows : rows[j][col] # rows[k][col]

\* DataFrame.corr(): a cell is nan unless both columns vary over the rows
corr_defined(rows) ==
    {<<a, b>> \in (DOMAIN corr_cols) \X (DOMAIN corr_cols) :
        Varies(rows, corr_cols[a]) /\ Varies(rows, corr_cols[b])}

HeatMap ==
    /\ pc = "heatmap"
    /\ page' = Append(page, Element("pyplot",
                         IF corr_defined(df_year.rows) = {} THEN "all nan" ELSE "annotated",
                         NoText, NoText))
    /\ pc' = "done"
    /\ UNCHANGED <<primary, secondary, cache, calls, reads, df, raised, selected_year,
                   selected_countries, x_axis_label, dist_label, df_year,
                   df_prev, delta_score, delta_x, happiest>>

---------------------------------------------------------------------------
(* Script runs *)

\* a widget interaction reruns the script from the top; the cache and the
\* files outlive the run
Rerun ==
    /\ pc \in {"done", "stopped", "crashed"}
    /\ calls < MaxCalls
    /\ pc' = "load"
    /\ df' = NoTable
    /\ raised' = "none"
    /\ df_year' = NoFrame
    /\ df_prev' = NoFrame
    /\ delta_score' = NoNumber
    /\ delta_x' = NoNumber
    /\ happiest' = NoCountry
    /\ page' = <<>>
    /\ UNCHANGED <<primary, secondary, cache, calls, reads, selected_year,
                   selected_countries, x_axis_label, dist_label>>

Init ==
    /\ \/ primary \in PrimaryFiles /\ secondary = SecMissing
       \/ primary \in PlainPrimaryFiles /\ secondary \in SecondaryFiles
    /\ cache = NoTable
    /\ calls = 0
    /\ reads = 0
    /\ pc = "load"
    /\ df = NoTable
    /\ raised = "none"
    /\ selected_year = DefaultYear
    /\ selected_countries = {}
    /\ x_axis_label = "Economy (GDP)"
    /\ dist_label = "Health (Life Expectancy)"
    /\ df_year = NoFrame
    /\ df_prev = NoFrame
    /\ delta_score = NoNumber
    /\ delta_x = NoNumber
    /\ happiest = NoCountry
    /\ page = <<>>

Next ==
    \/ LoadData
    \/ Sidebar
    \/ Prepare
    \/ Metric1
    \/ Metric2
    \/ Happiest
    \/ Highlight
    \/ Charts
    \/ HeatMap
    \/ Rerun

Spec == Init /\ [][Next]_vars

---------------------------------------------------------------------------
(* Properties *)

\* the run has passed Prepare: the header is on the page
ViewStarted == page # <<>> /\ page[1].kind = "title"
Metric1Done == ViewStarted /\ Len(page) >= 2
Metric2Done == ViewStarted /\ Len(page) >= 3
HappiestDone == pc \in {"highlight", "charts", "heatmap", "done"}
HighlightDone == pc \in {"charts", "heatmap", "done"}

\* the secondary source yields a Country -> Region mapping at all
HasMapping == secondary.state = "ok" /\ {"Country", "Region"} \subseteq secondary.cols

\* the mapping's entry for country c is the last row of 2015.csv that names c
IsEntry(k, c) ==
    /\ HasMapping
    /\ k \in DOMAIN secondary.rows
    /\ secondary.rows[k].Country = c
    /\ \A j \in DOMAIN secondary.rows : j > k => secondary.rows[j].Country # c

Mapped(c) == \E k \in DOMAIN secondary.rows : IsEntry(k, c)

\* C1 (as stated): after a successful load every Record's Region is non-null;
\* it is "Unknown" when 2015.csv is absent, "Other" when 2015.csv is present
\* and the Country has no entry in the mapping, and the mapped Region when
\* the Country has an entry.
C1_RegionFromSecondary ==
    df.set =>
        \A i \in DOMAIN df.rows :
            /\ df.rows[i].Region # NaN
            /\ secondary.state = "missing" => df.rows[i].Region = "Unknown"
            /\ (secondary.state = "ok" /\ ~Mapped(df.rows[i].Country))
                    => df.rows[i].Region = "Other"
            /\ \A k \in DOMAIN secondary.rows :
                    IsEntry(k, df.rows[i].Country)
                        => df.rows[i].Region = secondary.rows[k].Region

\* C1 (amended): as above, except that a Country whose entry in the mapping
\* is null gets "Other"; only a non-null mapped Region is taken over.
C1_RegionFromSecondaryNonNull ==
    df.set =>
        \A i \in DOMAIN df.rows :
            /\ df.rows[i].Region # NaN
            /\ secondary.state = "missing" => df.rows[i].Region = "Unknown"
            /\ (secondary.state = "ok" /\ ~Mapped(df.rows[i].Country))
                    => df.rows[i].Region = "Other"
            /\ \A k \in DOMAIN secondary.rows :
                    IsEntry(k, df.rows[i].Country)
                        => df.rows[i].Region =
                              IF secondary.rows[k].Region = NaN
                              THEN "Other"
                              ELSE secondary.rows[k].Region

\* a loaded table with one Record taking over its mapped Region and another
\* whose Country is mapped to a null Region
C1_Witness ==
    /\ df.set
    /\ \E i \in DOMAIN df.rows : df.rows[i].Region \in Regions
    /\ \E i \in DOMAIN df.rows :
          /\ df.rows[i].Region = "Other"
          /\ \E k \in DOMAIN secondary.rows :
                /\ IsEntry(k, df.rows[i].Country)
                /\ secondary.rows[k].Region = NaN

\* C2: when happiness_clean.csv is missing or unparseable the load fails, the
\* error message is the only thing rendered, and the run never gets past the
\* load: no sidebar, year subset, metric, chart or heat map step happens.
C2_FailedLoadHalts ==
    primary.state # "ok" =>
        /\ pc \in {"load", "stopped"}
        /\ ~df.set /\ ~cache.set
        /\ df_year = NoFrame /\ df_prev = NoFrame /\ happiest = NoCountry
        /\ pc = "load" => page = <<>>
        /\ pc = "stopped" => Len(page) = 1 /\ page[1].kind = "error"

C2_Witness ==
    /\ primary.state = "missing"
    /\ pc = "stopped"
    /\ calls = 2

\* C3: on an empty year subset the view computation raises nothing, and the
\* happiest country is the "no data" value.
C3_EmptyYearNeverRaises ==
    (ViewStarted /\ df_year.rows = <<>>) =>
        /\ raised = "none"
        /\ happiest = NoCountry

\* the delta of one metric, and the text shown for it
DeltaIsRight(delta, col, shown) ==
    IF df_prev.rows = <<>>
    THEN delta = NoNumber /\ shown = NoText
    ELSE IF df_year.rows = <<>>
    THEN delta.t = "nan" /\ shown.t = "nan"
    ELSE /\ delta.t = "num" /\ shown.t = "num"
         /\ delta.n * (Len(df_year.rows) * Len(df_prev.rows)) =
                delta.d * (SumCol(df_year.rows, col) * Len(df_prev.rows)
                            - SumCol(df_prev.rows, col) * Len(df_year.rows))

\* C4: after each metric, the delta is None (and rendered as no delta) when
\* the previous-year subset is empty; otherwise it is the mean of the year
\* subset minus the mean of the previous-year subset (nan when the year
\* subset itself is empty).  No run ends in an exception before both metrics
\* are rendered.
C4_DeltaUnavailableOrDifference ==
    /\ Metric1Done => DeltaIsRight(delta_score, "Score", page[2].delta)
    /\ Metric2Done => DeltaIsRight(delta_x, x_axis_col, page[3].delta)
    /\ (ViewStarted /\ ~Metric2Done) => raised = "none"

\* the earliest year of a two-year dataset is selected and both metrics are out
C4_Witness ==
    /\ Metric2Done
    /\ df_year.rows # <<>>
    /\ df_prev.rows = <<>>
    /\ \E i \in DOMAIN df.rows : df.rows[i].Year = selected_year + 1
    /\ delta_score = NoNumber /\ delta_x = NoNumber

\* C5 (as stated): over any sequence of load() calls the files are read at
\* most once and every call returns the table of the first call.
C5_ReadAtMostOnce ==
    /\ reads <= 1
    /\ df.set => df = cache

\* C5 (amended): once a load() call has succeeded, the files are not read
\* again and every later call returns the table of that call; a call that
\* fails stores nothing, so the next call reads the files again.
C5_ReadOnceAfterSuccess ==
    /\ cache.set => reads = 1
    /\ df.set => cache.set /\ df = cache
    /\ (~cache.set /\ primary.state = "ok" /\ pc # "load") => reads = calls

\* the second load() call of the process has been served from the cache
C5_Witness ==
    /\ calls = 2
    /\ reads = 1
    /\ pc = "sidebar"
    /\ df.set /\ df.rows # <<>>

\* C7: once the flag is attached, every row of the year subset has
\* Is_Selected = (Country in the highlighted set of this run); before that no
\* row of this run's year subset has a flag.
C7_FlagIsMembership ==
    /\ HighlightDone =>
          \A k \in DOMAIN df_year.rows :
              /\ HasFlag(df_year.rows[k])
              /\ df_year.rows[k].Is_Selected
                    = (df_year.rows[k].Country \in selected_countries)
    /\ ~HighlightDone => \A k \in DOMAIN df_year.rows : ~HasFlag(df_year.rows[k])

\* in the second run of the process a flag is set, a row is left unflagged
\* although something is highlighted, and one highlighted name has no row in
\* the year subset
C7_Witness ==
    /\ pc = "done"
    /\ calls = 2
    /\ \E k \in DOMAIN df_year.rows : df_year.rows[k].Is_Selected
    /\ \E c \in selected_countries :
          \A k \in DOMAIN df_year.rows : df_year.rows[k].Country # c

\* C8: the loaded table is never changed: df is the cached table, the cached
\* table is the primary file's rows with a Region each, and no row of it
\* carries the highlight flag.
C8_DatasetNeverMutated ==
    /\ df.set => df = cache
    /\ cache.set =>
          /\ Len(cache.rows) = Len(primary.rows)
          /\ \A i \in DOMAIN cache.rows :
                /\ DOMAIN cache.rows[i] = (DOMAIN primary.rows[i]) \cup {"Region"}
                /\ \A c \in DOMAIN primary.rows[i] :
                      cache.rows[i][c] = primary.rows[i][c]

\* a run has attached a TRUE flag to a row of its year subset
C8_Witness ==
    /\ pc = "done"
    /\ calls = 2
    /\ \E k \in DOMAIN df_year.rows : df_year.rows[k].Is_Selected

\* C9: the happiest country is the Country of the first row, in dataset
\* order, among the rows of the selected year with the maximal Score.
C9_ArgmaxFirstInDatasetOrder ==
    HappiestDone =>
        \E i \in DOMAIN df.rows :
            /\ df.rows[i].Year = selected_year
            /\ df.rows[i].Country = happiest
            /\ \A j \in DOMAIN df.rows :
                  df.rows[j].Year = selected_year =>
                      /\ df.rows[j].Score <= df.rows[i].Score
                      /\ j < i => df.rows[j].Score < df.rows[i].Score

\* two countries tie for the maximal Score of the selected year
C9_Witness ==
    /\ pc = "done"
    /\ \E i, j \in DOMAIN df.rows :
          /\ i < j
          /\ df.rows[i].Year = selected_year /\ df.rows[j].Year = selected_year
          /\ df.rows[i].Score = df.rows[j].Score
          /\ df.rows[i].Country # df.rows[j].Country
          /\ happiest = df.rows[i].Country

\* C10: on an empty year subset both means are rendered as "no data" and
\* the run finishes without crashing.
C10_EmptyYearRendersNoData ==
    (ViewStarted /\ df_year.rows = <<>> /\ pc \in {"done", "crashed"}) =>
        /\ pc = "done"
        /\ page[2].value.t # "num"
        /\ page[3].value.t # "num"

====
